---- MODULE Spec2Model ----
(***************************************************************************)
(* Model of fedrep/models.py: ModelSplit (body/head parameter management)  *)
(* and ModelManager (two-phase local training, fine-tune-then-evaluate,    *)
(* head persistence in the client-state file).                             *)
(*                                                                         *)
(* A tensor is abstracted to one integer value.  Optional values (None, a  *)
(* missing file, an absent config field) are the empty sequence <<>>, a    *)
(* present value v is <<v>>.  train() and test() are stepped statement by  *)
(* statement through pc, because the claims speak about points inside the  *)
(* calls.  torch semantics are those of torch >= 2.0:                      *)
(* Optimizer.zero_grad() sets .grad to None, backward() fills .grad only   *)
(* for parameters with requires_grad, SGD.step() skips parameters whose    *)
(* .grad is None.  The gradient of a minibatch's loss is a property of    *)
(* the minibatch's data (Grads) and is the same for every tensor that      *)
(* requires grad.                                                          *)
(***************************************************************************)
EXTENDS Integers, Sequences, FiniteSets, TLC

-----------------------------------------------------------------------------
(* Bounds of the model *)

\* number of train() / test() calls in one behaviour
MaxCalls == 2
\* number of orchestrator operations (set_parameters, setter, new manager)
\* in one behaviour
MaxEdits == 1
\* largest epoch count a config field carries
MaxEpochs == 1
\* largest number of minibatches of the training loader
MaxTrainBatches == 1
\* largest number of minibatches of the test loader
MaxTestBatches == 1

-----------------------------------------------------------------------------
(* Program constants *)

\* fedrep.constants, imported at models.py:15-19 (values scaled down)
DEFAULT_FINETUNE_EPOCHS == 1
DEFAULT_LOCAL_TRAIN_EPOCHS == 2
DEFAULT_REPRESENTATION_EPOCHS == 1

\* state_dict() keys of the body and of the head, in structural order
BodyKeys == <<"conv.weight", "conv.bias">>
HeadKeys == <<"fc.weight">>

Range(s) == {s[n] : n \in 1..Len(s)}
BodyKeySet == Range(BodyKeys)
HeadKeySet == Range(HeadKeys)

\* ModelSplit.state_dict() keys: "_body.<k>" for every body key, then
\* "_head.<k>" for every head key (registration order of __init__)
FullNames == [n \in 1..(Len(BodyKeys) + Len(HeadKeys)) |->
                IF n <= Len(BodyKeys) THEN <<"_body", BodyKeys[n]>>
                ELSE <<"_head", HeadKeys[n - Len(BodyKeys)]>>]

\* gradient that the loss of a minibatch produces for a tensor that requires
\* grad: it is a property of the minibatch's data (vanishing or not)
Grads == {0, 2}
\* values the orchestrator supplies for a tensor
InVals == {7}

None == <<>>
Some(v) == <<v>>

\* a freshly constructed parameter: initial value, requires_grad, no grad
NewParam(v) == [val |-> v, requires_grad |-> TRUE, grad |-> None]

\* model_split_class(self._create_model()): default initialisation
NewBody == [k \in BodyKeySet |-> NewParam(IF k = BodyKeys[1] THEN 1 ELSE 2)]
NewHead == [k \in HeadKeySet |-> NewParam(3)]

VARIABLES
    body,              \* ModelSplit._body: key -> parameter
    head,              \* ModelSplit._head: key -> parameter
    client_save_path,  \* None or the path of the client-state file
    file,              \* content of the client-state file, None if absent
    config,            \* the three optional epoch fields
    trainloader,       \* sequence of minibatches: size and gradient
    testloader,        \* sequence of minibatch sizes
    pc,                \* position inside train() / test()
    num_local_epochs,  \* locals of train() / test()
    num_rep_epochs,
    num_finetune_epochs,
    momentum_buffer,   \* optimizer state: full name -> None or buffer
    i,                 \* epoch index of the running loop
    j,                 \* minibatch index of the running loop
    total,             \* examples counted by the running call
    loss_is_tensor,    \* train(): loss was assigned by a minibatch
    result,            \* outcome of the last finished call
    calls,             \* train() / test() calls started so far
    edits,             \* orchestrator operations so far
    actors,            \* the other client actors, each with a manager
    store              \* the files of their client-state paths

vars == <<body, head, client_save_path, file, config, trainloader, testloader,
          pc, num_local_epochs, num_rep_epochs, num_finetune_epochs,
          momentum_buffer, i, j, total, loss_is_tensor, result, calls, edits,
          actors, store>>

-----------------------------------------------------------------------------
(* ModelSplit *)

ParamNames == Range(FullNames)

\* nn.Module.state_dict() of a sub-module: key -> value
StateDict(m) == [k \in DOMAIN m |-> m[k].val]

\* nn.Module.load_state_dict: copies the values in place; requires_grad and
\* grad of the parameters are kept
CopyInto(m, sd) == [k \in DOMAIN m |-> [m[k] EXCEPT !.val = sd[k]]]

\* variant: load_state_dict(state_dict, strict=False)
load_state_dict_lenient(m, sd) ==
    [module |-> [k \in DOMAIN m |->
                   IF k \in DOMAIN sd THEN [m[k] EXCEPT !.val = sd[k]] ELSE m[k]],
     raised |-> "none"]

\* nn.Module.load_state_dict(state_dict, strict=True): the matching keys are
\* copied, then missing or unexpected keys raise
load_state_dict_strict(m, sd) ==
    [module |-> [k \in DOMAIN m |->
                   IF k \in DOMAIN sd THEN [m[k] EXCEPT !.val = sd[k]] ELSE m[k]],
     raised |-> IF DOMAIN sd = DOMAIN m THEN "none" ELSE "RuntimeError"]

\* ModelSplit.state_dict(): full name -> value
FullStateDict(b, h) ==
    [n \in ParamNames |-> IF n[1] = "_body" THEN b[n[2]].val ELSE h[n[2]].val]

Values(m, keys) == [n \in 1..Len(keys) |-> m[keys[n]].val]

\* variant: head tensors first
get_parameters_head_first(b, h) == Values(h, HeadKeys) \o Values(b, BodyKeys)

\* body tensors followed by head tensors, names dropped
get_parameters(b, h) == Values(b, BodyKeys) \o Values(h, HeadKeys)

\* variant: a mapping that does not name every tensor is dropped
set_parameters_all_or_nothing(b, h, state_dict) ==
    [body |-> [k \in BodyKeySet |->
                 IF ParamNames \subseteq DOMAIN state_dict
                 THEN [b[k] EXCEPT !.val = state_dict[<<"_body", k>>]] ELSE b[k]],
     head |-> [k \in HeadKeySet |->
                 IF ParamNames \subseteq DOMAIN state_dict
                 THEN [h[k] EXCEPT !.val = state_dict[<<"_head", k>>]] ELSE h[k]]]

\* ordered_state_dict = state_dict().copy(); update(state_dict);
\* load_state_dict(ordered_state_dict, strict=False): unknown names ignored
set_parameters(b, h, state_dict) ==
    LET ordered_state_dict ==
            [n \in ParamNames \cup DOMAIN state_dict |->
                IF n \in DOMAIN state_dict THEN state_dict[n]
                ELSE FullStateDict(b, h)[n]]
    IN  [body |-> [k \in BodyKeySet |->
                     [b[k] EXCEPT !.val = ordered_state_dict[<<"_body", k>>]]],
         head |-> [k \in HeadKeySet |->
                     [h[k] EXCEPT !.val = ordered_state_dict[<<"_head", k>>]]]]

enable_head(h) == [k \in DOMAIN h |-> [h[k] EXCEPT !.requires_grad = TRUE]]
\* variant: only the first body tensor is enabled
enable_body_first(b) ==
    [k \in DOMAIN b |-> IF k = BodyKeys[1] THEN [b[k] EXCEPT !.requires_grad = TRUE]
                        ELSE b[k]]
enable_body(b) == [k \in DOMAIN b |-> [b[k] EXCEPT !.requires_grad = TRUE]]
\* variant: the head is left as it is
disable_head_noop(h) == h
disable_head(h) == [k \in DOMAIN h |-> [h[k] EXCEPT !.requires_grad = FALSE]]
\* variant: the body is left as it is
disable_body_noop(b) == b
disable_body(b) == [k \in DOMAIN b |-> [b[k] EXCEPT !.requires_grad = FALSE]]

-----------------------------------------------------------------------------
(* torch: backward pass and SGD *)

\* learning rate, in units of the value grid
LearningRate == 1

\* momentum 0.5 on the integer grid, rounding toward zero
Half(x) == IF x >= 0 THEN x \div 2 ELSE -((-x) \div 2)

\* variant: zero_grad(set_to_none=False) keeps an existing .grad as zeros
ZeroGradToZero(m) ==
    [k \in DOMAIN m |-> [m[k] EXCEPT !.grad = IF @ = None THEN None ELSE Some(0)]]

\* optimizer.zero_grad(): every .grad becomes None
ZeroGrad(m) == [k \in DOMAIN m |-> [m[k] EXCEPT !.grad = None]]

\* loss.backward(): accumulates g[k] into .grad of the parameters that
\* require grad, leaves the others alone
Backward(m, g) ==
    [k \in DOMAIN m |->
        IF m[k].requires_grad
        THEN [m[k] EXCEPT !.grad = IF @ = None THEN Some(g[k])
                                   ELSE Some(@[1] + g[k])]
        ELSE m[k]]

\* SGD.step() for one parameter: skipped when .grad is None; with momentum
\* the buffer starts as the gradient and then is momentum * buf + grad
StepBuffer(p, buf) ==
    IF p.grad = None THEN buf
    ELSE IF buf = None THEN Some(p.grad[1])
    ELSE Some(Half(buf[1]) + p.grad[1])

StepValue(p, buf, with_momentum) ==
    IF p.grad = None THEN p.val
    ELSE IF with_momentum
         THEN p.val - LearningRate * StepBuffer(p, buf)[1]
         ELSE p.val - LearningRate * p.grad[1]

\* one minibatch: zero_grad(); loss.backward(); optimizer.step()
BatchModule(m, prefix, g, buf, with_momentum) ==
    LET m1 == Backward(ZeroGrad(m), g)
    IN  [k \in DOMAIN m |->
           [m1[k] EXCEPT !.val = StepValue(m1[k], buf[<<prefix, k>>],
                                           with_momentum)]]

BatchBuffer(b, h, gb, gh, buf) ==
    LET b1 == Backward(ZeroGrad(b), gb)
        h1 == Backward(ZeroGrad(h), gh)
    IN  [n \in ParamNames |->
           StepBuffer(IF n[1] = "_body" THEN b1[n[2]] ELSE h1[n[2]], buf[n])]

NoBuffers == [n \in ParamNames |-> None]

-----------------------------------------------------------------------------
(* ModelManager *)

ConfigFields == {"num_local_epochs", "num_rep_epochs", "num_finetune_epochs"}

\* variant: the config field is never looked at
ResolveDefault(cfg, field, default) == default

\* variant: the fields are honoured only when all of them are present
ResolveAllOrNothing(cfg, field, default) ==
    IF \A f \in ConfigFields : cfg[f] # None THEN cfg[field][1] ELSE default

\* hasattr(self.config, field) and int(self.config.<field>), else the default
Resolve(cfg, field, default) ==
    IF cfg[field] # None THEN cfg[field][1] ELSE default

\* variant: the persisted head is never loaded
LoadClientStateSkipped(h, path, f) == [head |-> h, raised |-> "none"]

\* variant: the guard lacks os.path.isfile, torch.load meets no file
LoadClientStateNoIsfile(h, path, f) ==
    IF path # None
    THEN IF f # None
         THEN [head |-> CopyInto(h, f[1]), raised |-> "none"]
         ELSE [head |-> h, raised |-> "FileNotFoundError"]
    ELSE [head |-> h, raised |-> "none"]

\* the load at the head of train() and test(): guarded by
\* client_save_path is not None and os.path.isfile(client_save_path);
\* raised is the exception of the statement, "none" if it completes
LoadClientState(h, path, f) ==
    IF path # None /\ f # None
    THEN [head |-> CopyInto(h, f[1]), raised |-> "none"]
    ELSE [head |-> h, raised |-> "none"]

\* the client actors the simulation runs side by side, and the paths of the
\* client-state directory
Actors == {1, 2}
ClientPaths == <<"client_1", "client_2">>
Paths == Range(ClientPaths)

\* gradient of the head loss on the data of each client
ActorGrads == <<2, 1>>

\* a manager as constructed for an actor: fresh head, no call made
NewActor(path) ==
    [pc |-> "idle", head |-> NewHead, path |-> path, calls |-> 0,
     trains |-> 0, loaded_from |-> 0, raised |-> FALSE]

\* a path without a file; a file is its content, the actor that wrote it and
\* whether the write has finished
NoFile == [file |-> None, writer |-> 0, complete |-> TRUE]

\* data loaders of the client: a test minibatch is its size, a training
\* minibatch carries the gradient of its loss as well
TestLoaders(max) == {[n \in 1..m |-> 1] : m \in 0..max}
TrainLoaders(max) ==
    UNION {[1..m -> [size : {1}, grad : Grads]] : m \in 0..max}

\* loss.backward() on a minibatch gives its gradient to every tensor
GradOf(batch, keys) == [k \in keys |-> batch.grad]

\* len(loader.dataset)
DatasetSize(loader) == Len(loader)

Init ==
    /\ body = NewBody
    /\ head = NewHead
    /\ client_save_path \in {None, Some("client_state")}
    /\ file = None
    /\ config \in [ConfigFields -> {None} \cup {Some(n) : n \in 0..MaxEpochs}]
    /\ trainloader \in TrainLoaders(MaxTrainBatches)
    /\ testloader \in TestLoaders(MaxTestBatches)
    /\ pc = "idle"
    /\ num_local_epochs = 0
    /\ num_rep_epochs = 0
    /\ num_finetune_epochs = 0
    /\ momentum_buffer = NoBuffers
    /\ i = 0
    /\ j = 0
    /\ total = 0
    /\ loss_is_tensor = FALSE
    /\ result = [op |-> "none", outcome |-> "none"]
    /\ calls = 0
    /\ edits = 0
    /\ actors = <<>>
    /\ store = <<>>

CanCall == pc = "idle" /\ calls < MaxCalls
CanEdit == pc = "idle" /\ edits < MaxEdits
counters == <<calls, edits>>

\* what no call of this manager assigns: the attributes set in __init__,
\* the other actors and their files
manager == <<client_save_path, config, trainloader, testloader, actors, store>>
locals == <<num_local_epochs, num_rep_epochs, num_finetune_epochs,
            momentum_buffer, i, j, total, loss_is_tensor>>

\* the locals of a call are gone when it returns
DropLocals ==
    /\ num_local_epochs' = 0
    /\ num_rep_epochs' = 0
    /\ num_finetune_epochs' = 0
    /\ momentum_buffer' = NoBuffers
    /\ i' = 0
    /\ j' = 0
    /\ total' = 0
    /\ loss_is_tensor' = FALSE

(* ---- train() ---- *)

TrainCall ==
    /\ CanCall
    /\ pc' = "train_load"
    /\ calls' = calls + 1
    /\ edits' = edits
    /\ UNCHANGED <<body, head, file, manager, locals, result>>

\* lines 183-185
TrainLoad ==
    /\ pc = "train_load"
    /\ LET loaded == LoadClientState(head, client_save_path, file)
       IN  /\ head' = loaded.head
           /\ IF loaded.raised = "none"
              THEN pc' = "train_config" /\ result' = result
              ELSE /\ pc' = "idle"
                   /\ result' = [op |-> "train", outcome |-> loaded.raised]
    /\ UNCHANGED <<body, file, manager, locals, counters>>

\* lines 187-202
TrainConfig ==
    /\ pc = "train_config"
    /\ num_local_epochs' =
          Resolve(config, "num_local_epochs", DEFAULT_LOCAL_TRAIN_EPOCHS)
    /\ num_rep_epochs' =
          Resolve(config, "num_rep_epochs", DEFAULT_REPRESENTATION_EPOCHS)
    /\ momentum_buffer' = NoBuffers
    /\ total' = 0
    /\ loss_is_tensor' = FALSE
    /\ i' = 0
    /\ j' = 0
    /\ pc' = "train_epoch"
    /\ UNCHANGED <<body, head, file, manager, num_finetune_epochs, result, counters>>

\* variant: a new optimizer for the representation phase
TrainEpochNewOptimizer ==
    /\ pc = "train_epoch"
    /\ IF i < num_local_epochs + num_rep_epochs
       THEN /\ IF i < num_local_epochs
               THEN /\ body' = disable_body(body) /\ head' = enable_head(head)
                    /\ momentum_buffer' = momentum_buffer
               ELSE /\ body' = enable_body(body) /\ head' = disable_head(head)
                    /\ momentum_buffer' = NoBuffers
            /\ j' = 0
            /\ pc' = "train_batch"
       ELSE /\ pc' = "train_save"
            /\ UNCHANGED <<body, head, j, momentum_buffer>>
    /\ UNCHANGED <<file, manager, num_local_epochs, num_rep_epochs,
                   num_finetune_epochs, i, total,
                   loss_is_tensor, result, counters>>

\* lines 203-209: loop test and the toggles of the epoch
TrainEpoch ==
    /\ pc = "train_epoch"
    /\ IF i < num_local_epochs + num_rep_epochs
       THEN /\ IF i < num_local_epochs
               THEN body' = disable_body(body) /\ head' = enable_head(head)
               ELSE body' = enable_body(body) /\ head' = disable_head(head)
            /\ j' = 0
            /\ pc' = "train_batch"
       ELSE /\ pc' = "train_save"
            /\ UNCHANGED <<body, head, j>>
    /\ UNCHANGED <<file, manager, num_local_epochs, num_rep_epochs,
                   num_finetune_epochs, momentum_buffer, i, total,
                   loss_is_tensor, result, counters>>

\* lines 210-218: one minibatch, or the end of the pass
TrainBatch ==
    /\ pc = "train_batch"
    /\ IF j < Len(trainloader)
       THEN LET gb == GradOf(trainloader[j + 1], BodyKeySet)
                gh == GradOf(trainloader[j + 1], HeadKeySet)
            IN
              /\ body' = BatchModule(body, "_body", gb, momentum_buffer, TRUE)
              /\ head' = BatchModule(head, "_head", gh, momentum_buffer, TRUE)
              /\ momentum_buffer' =
                    BatchBuffer(body, head, gb, gh, momentum_buffer)
              /\ total' = total + trainloader[j + 1].size
              /\ loss_is_tensor' = TRUE
              /\ j' = j + 1
              /\ UNCHANGED <<i, pc>>
       ELSE /\ i' = i + 1
            /\ pc' = "train_epoch"
            /\ UNCHANGED <<body, head, momentum_buffer, total, loss_is_tensor, j>>
    /\ UNCHANGED <<file, manager, num_local_epochs, num_rep_epochs,
                   num_finetune_epochs, result, counters>>

\* variant: the file is written only when it does not exist yet
SaveClientStateOnce(h, path, f) ==
    IF path # None /\ f = None THEN Some(StateDict(h)) ELSE f

\* lines 220-222
SaveClientState(h, path, f) == IF path # None THEN Some(StateDict(h)) ELSE f

TrainSave ==
    /\ pc = "train_save"
    /\ file' = SaveClientState(head, client_save_path, file)
    /\ pc' = "train_return"
    /\ UNCHANGED <<body, head, manager, locals, result, counters>>

\* line 224: loss.item() on the float 0.0, then correct / total
TrainOutcome(tensor, tot) ==
    IF ~tensor THEN "AttributeError"
    ELSE IF tot = 0 THEN "ZeroDivisionError"
    ELSE "returned"

TrainReturn ==
    /\ pc = "train_return"
    /\ result' = [op |-> "train", outcome |-> TrainOutcome(loss_is_tensor, total)]
    /\ pc' = "idle"
    /\ DropLocals
    /\ UNCHANGED <<body, head, file, manager, counters>>

(* ---- test() ---- *)

TestCall ==
    /\ CanCall
    /\ pc' = "test_load"
    /\ calls' = calls + 1
    /\ edits' = edits
    /\ UNCHANGED <<body, head, file, manager, locals, result>>

\* lines 233-235
TestLoad ==
    /\ pc = "test_load"
    /\ LET loaded == LoadClientState(head, client_save_path, file)
       IN  /\ head' = loaded.head
           /\ IF loaded.raised = "none"
              THEN pc' = "test_config" /\ result' = result
              ELSE /\ pc' = "idle"
                   /\ result' = [op |-> "test", outcome |-> loaded.raised]
    /\ UNCHANGED <<body, file, manager, locals, counters>>

\* lines 237-244 and 254-257: the fine-tuning optimizer has no momentum;
\* no enable_* / disable_* call is made
TestConfig ==
    /\ pc = "test_config"
    /\ num_finetune_epochs' =
          Resolve(config, "num_finetune_epochs", DEFAULT_FINETUNE_EPOCHS)
    /\ i' = 0
    /\ j' = 0
    /\ total' = 0
    /\ pc' = IF num_finetune_epochs' > 0 THEN "finetune_epoch" ELSE "test_eval"
    /\ UNCHANGED <<body, head, file, manager, num_local_epochs, num_rep_epochs,
                   momentum_buffer, loss_is_tensor, result, counters>>

\* line 245
FinetuneEpoch ==
    /\ pc = "finetune_epoch"
    /\ j' = 0
    /\ pc' = IF i < num_finetune_epochs THEN "finetune_batch" ELSE "test_eval"
    /\ UNCHANGED <<body, head, file, manager, num_local_epochs, num_rep_epochs,
                   num_finetune_epochs, momentum_buffer, i, total,
                   loss_is_tensor, result, counters>>

\* lines 246-252
FinetuneBatch ==
    /\ pc = "finetune_batch"
    /\ IF j < Len(trainloader)
       THEN LET gb == GradOf(trainloader[j + 1], BodyKeySet)
                gh == GradOf(trainloader[j + 1], HeadKeySet)
            IN
              /\ body' = BatchModule(body, "_body", gb, momentum_buffer, FALSE)
              /\ head' = BatchModule(head, "_head", gh, momentum_buffer, FALSE)
              /\ j' = j + 1
              /\ UNCHANGED <<i, pc>>
       ELSE /\ i' = i + 1
            /\ pc' = "finetune_epoch"
            /\ UNCHANGED <<body, head, j>>
    /\ UNCHANGED <<file, manager, num_local_epochs, num_rep_epochs,
                   num_finetune_epochs, momentum_buffer, total,
                   loss_is_tensor, result, counters>>

\* lines 258-264: evaluation under no_grad changes no parameter
TestEval ==
    /\ pc = "test_eval"
    /\ IF j < Len(testloader)
       THEN /\ total' = total + testloader[j + 1]
            /\ j' = j + 1
            /\ pc' = pc
       ELSE /\ pc' = "test_return"
            /\ UNCHANGED <<total, j>>
    /\ UNCHANGED <<body, head, file, manager, num_local_epochs, num_rep_epochs,
                   num_finetune_epochs, momentum_buffer, i, loss_is_tensor,
                   result, counters>>

\* lines 266-269: loss / len(self.testloader.dataset), then correct / total
TestOutcome(size, tot) ==
    IF size = 0 THEN "ZeroDivisionError"
    ELSE IF tot = 0 THEN "ZeroDivisionError"
    ELSE "returned"

\* variant: test() saves the head as train() does
TestReturnSaving ==
    /\ pc = "test_return"
    /\ result' = [op |-> "test",
                  outcome |-> TestOutcome(DatasetSize(testloader), total)]
    /\ pc' = "idle"
    /\ DropLocals
    /\ file' = SaveClientState(head, client_save_path, file)
    /\ UNCHANGED <<body, head, manager, counters>>

TestReturn ==
    /\ pc = "test_return"
    /\ result' = [op |-> "test",
                  outcome |-> TestOutcome(DatasetSize(testloader), total)]
    /\ pc' = "idle"
    /\ DropLocals
    /\ UNCHANGED <<body, head, file, manager, counters>>

(* ---- operations of the orchestrator between calls ---- *)

UnknownName == <<"_head", "unknown">>

\* named values handed to set_parameters
BodyNames == {n \in ParamNames : n[1] = "_body"}
HeadNames == {n \in ParamNames : n[1] = "_head"}
InputDomains == {ParamNames, BodyNames, HeadNames \cup {UnknownName}}
StateDictInputs == UNION {[D -> InVals] : D \in InputDomains}

SetParameters ==
    /\ CanEdit
    /\ \E state_dict \in StateDictInputs :
          /\ body' = set_parameters(body, head, state_dict).body
          /\ head' = set_parameters(body, head, state_dict).head
    /\ edits' = edits + 1
    /\ result' = [op |-> "set_parameters", outcome |-> "returned"]
    /\ UNCHANGED <<file, manager, locals, pc, calls>>

\* zip(model.state_dict().keys(), values): positional pairing
Zip(names, values) ==
    LET len == IF Len(names) <= Len(values) THEN Len(names) ELSE Len(values)
    IN  [n \in {names[k] : k \in 1..len} |->
           values[CHOOSE k \in 1..len : names[k] = n]]

\* get_parameters() applied back with set_parameters
RoundTrip ==
    /\ CanEdit
    /\ LET state_dict == Zip(FullNames, get_parameters(body, head))
       IN  /\ body' = set_parameters(body, head, state_dict).body
           /\ head' = set_parameters(body, head, state_dict).head
    /\ edits' = edits + 1
    /\ result' = [op |-> "round_trip", outcome |-> "returned"]
    /\ UNCHANGED <<file, manager, locals, pc, calls>>

\* head.setter: load_state_dict(state_dict, strict=True)
HeadInputs ==
    UNION {[D -> InVals] : D \in SUBSET (HeadKeySet \cup {"unknown"})}

Outcome(raised) == IF raised = "none" THEN "returned" ELSE raised

SetHead ==
    /\ CanEdit
    /\ \E state_dict \in HeadInputs :
          LET loaded == load_state_dict_strict(head, state_dict)
          IN  /\ head' = loaded.module
              /\ result' = [op |-> "head", outcome |-> Outcome(loaded.raised)]
    /\ edits' = edits + 1
    /\ UNCHANGED <<body, file, manager, locals, pc, calls>>

\* body.setter: load_state_dict(state_dict, strict=True)
BodyInputs ==
    UNION {[D -> InVals] : D \in SUBSET (BodyKeySet \cup {"unknown"})}

SetBody ==
    /\ CanEdit
    /\ \E state_dict \in BodyInputs :
          LET loaded == load_state_dict_strict(body, state_dict)
          IN  /\ body' = loaded.module
              /\ result' = [op |-> "body", outcome |-> Outcome(loaded.raised)]
    /\ edits' = edits + 1
    /\ UNCHANGED <<head, file, manager, locals, pc, calls>>

\* ModelManager.__init__ for the same client: a new model, the same path
Construct ==
    /\ CanEdit
    /\ body' = NewBody
    /\ head' = NewHead
    /\ edits' = edits + 1
    /\ result' = [op |-> "construct", outcome |-> "returned"]
    /\ UNCHANGED <<file, manager, locals, pc, calls>>

Next ==
    \/ TrainCall \/ TrainLoad \/ TrainConfig \/ TrainEpoch \/ TrainBatch
    \/ TrainSave \/ TrainReturn
    \/ TestCall \/ TestLoad \/ TestConfig \/ FinetuneEpoch \/ FinetuneBatch
    \/ TestEval \/ TestReturn
    \/ SetParameters \/ SetHead \/ Construct

Spec == Init /\ [][Next]_vars

(* ---- train() with faults: an exception raised inside the call ---- *)

BeforeSave == {"train_load", "train_config", "train_epoch", "train_batch"}

\* variant: the head is saved on the way out, as in a finally block
TrainRaiseSaving ==
    /\ pc \in BeforeSave
    /\ pc' = "idle"
    /\ result' = [op |-> "train", outcome |-> "raised"]
    /\ DropLocals
    /\ file' = SaveClientState(head, client_save_path, file)
    /\ UNCHANGED <<body, head, manager, counters>>

\* torch.load, int(), the data loader, the forward or the backward pass raise:
\* nothing in train() catches, the call ends where it is
TrainRaise ==
    /\ pc \in BeforeSave
    /\ pc' = "idle"
    /\ result' = [op |-> "train", outcome |-> "raised"]
    /\ DropLocals
    /\ UNCHANGED <<body, head, file, manager, counters>>

\* the calls of one manager, each of which may raise
NextFault ==
    \/ TrainCall \/ TrainLoad \/ TrainConfig \/ TrainEpoch \/ TrainBatch
    \/ TrainSave \/ TrainReturn \/ TrainRaise
    \/ TestCall \/ TestLoad \/ TestConfig \/ FinetuneEpoch \/ FinetuneBatch
    \/ TestEval \/ TestReturn

SpecFault == Init /\ [][NextFault]_vars

(* ---- several client actors, each with its own manager, one directory ---- *)

\* every actor runs one head-phase epoch of one minibatch per train() and no
\* fine-tuning; the single-manager variables stay as constructed
single == <<body, head, client_save_path, file, config, trainloader,
            testloader, pc, num_local_epochs, num_rep_epochs,
            num_finetune_epochs, momentum_buffer, i, j, total, loss_is_tensor,
            result, calls, edits>>

InitClients ==
    /\ body = NewBody
    /\ head = NewHead
    /\ client_save_path = None
    /\ file = None
    /\ config = [f \in ConfigFields |-> None]
    /\ trainloader = <<>>
    /\ testloader = <<>>
    /\ pc = "idle"
    /\ num_local_epochs = 0
    /\ num_rep_epochs = 0
    /\ num_finetune_epochs = 0
    /\ momentum_buffer = NoBuffers
    /\ i = 0
    /\ j = 0
    /\ total = 0
    /\ loss_is_tensor = FALSE
    /\ result = [op |-> "none", outcome |-> "none"]
    /\ calls = 0
    /\ edits = 0
    /\ \E paths \in [Actors -> Paths] :
          actors = [c \in Actors |-> NewActor(paths[c])]
    /\ store = [p \in Paths |-> NoFile]

\* variant: every manager is given the path of the first client
PathOfFirst(a) == ClientPaths[1]

\* self.client_save_path
PathOf(a) == a.path

ActorCall(c, to) ==
    /\ actors[c].pc = "idle"
    /\ actors[c].calls < MaxCalls
    /\ actors' = [actors EXCEPT ![c].pc = to, ![c].calls = @ + 1]
    /\ UNCHANGED <<store, single>>

\* the load at the head of train() and test(); torch.load of a file whose
\* write has not finished raises
ActorLoad(c, from, to) ==
    /\ actors[c].pc = from
    /\ LET a == actors[c]
           f == store[PathOf(a)]
       IN  actors' =
             [actors EXCEPT ![c] =
                IF f.file # None /\ ~f.complete
                THEN [a EXCEPT !.pc = "idle", !.raised = TRUE]
                ELSE [a EXCEPT
                        !.head = LoadClientState(a.head, Some(PathOf(a)),
                                                 f.file).head,
                        !.loaded_from = IF f.file # None THEN f.writer ELSE @,
                        !.pc = to]]
    /\ UNCHANGED <<store, single>>

ActorTrainCall(c) == ActorCall(c, "train_load")
ActorTrainLoad(c) == ActorLoad(c, "train_load", "train_step")

\* the head phase: zero_grad(), backward(), step() on the client's data
ActorTrainStep(c) ==
    /\ actors[c].pc = "train_step"
    /\ actors' =
          [actors EXCEPT
             ![c].head = BatchModule(enable_head(@), "_head",
                                     GradOf([grad |-> ActorGrads[c]], HeadKeySet),
                                     NoBuffers, TRUE),
             ![c].pc = "train_save"]
    /\ UNCHANGED <<store, single>>

\* torch.save opens the file for writing ...
ActorSaveOpen(c) ==
    /\ actors[c].pc = "train_save"
    /\ store' = [store EXCEPT ![PathOf(actors[c])] =
                   [file |-> Some(StateDict(actors[c].head)), writer |-> c,
                    complete |-> FALSE]]
    /\ actors' = [actors EXCEPT ![c].pc = "train_write"]
    /\ UNCHANGED single

\* ... and closes it with the head inside
ActorSaveWrite(c) ==
    /\ actors[c].pc = "train_write"
    /\ LET a == actors[c]
           p == PathOf(a)
       IN  store' = [store EXCEPT ![p] =
                       [file |-> SaveClientState(a.head, Some(p), store[p].file),
                        writer |-> c, complete |-> TRUE]]
    /\ actors' = [actors EXCEPT ![c].pc = "idle", ![c].trains = @ + 1]
    /\ UNCHANGED single

ActorTestCall(c) == ActorCall(c, "test_load")
ActorTestLoad(c) == ActorLoad(c, "test_load", "idle")

NextClients ==
    \E c \in Actors :
        \/ ActorTrainCall(c) \/ ActorTrainLoad(c) \/ ActorTrainStep(c)
        \/ ActorSaveOpen(c) \/ ActorSaveWrite(c)
        \/ ActorTestCall(c) \/ ActorTestLoad(c)

SpecClients == InitClients /\ [][NextClients]_vars

(* ---- size accessors ---- *)

train_dataset_size == DatasetSize(trainloader)
test_dataset_size == DatasetSize(testloader)
\* variant: the training set counted twice
total_dataset_size_train_twice == DatasetSize(trainloader) + DatasetSize(trainloader)
total_dataset_size == DatasetSize(trainloader) + DatasetSize(testloader)

Accessor(name) ==
    /\ CanEdit
    /\ edits' = edits + 1
    /\ result' = [op |-> name, outcome |-> "returned"]
    /\ UNCHANGED <<body, head, file, manager, locals, pc, calls>>

TrainDatasetSize == Accessor("train_dataset_size")
TestDatasetSize == Accessor("test_dataset_size")
TotalDatasetSize == Accessor("total_dataset_size")

(* ---- the toggles called from outside train() ---- *)

Toggle(name, b, h) ==
    /\ CanEdit
    /\ body' = b
    /\ head' = h
    /\ edits' = edits + 1
    /\ result' = [op |-> name, outcome |-> "returned"]
    /\ UNCHANGED <<file, manager, locals, pc, calls>>

EnableHead == Toggle("enable_head", body, enable_head(head))
EnableBody == Toggle("enable_body", enable_body(body), head)
DisableHead == Toggle("disable_head", body, disable_head(head))
DisableBody == Toggle("disable_body", disable_body(body), head)

(* ---- the manager between calls: a model some training has left behind ---- *)

TrainedVals == {1, 5, 6}

\* the states of a sub-module: the toggles set every flag of a sub-module at
\* once, and backward() fills every gradient of a trainable sub-module
Modules(keys) ==
    {[k \in keys |-> [val |-> v[k], requires_grad |-> r, grad |-> g]] :
        v \in [keys -> TrainedVals], r \in BOOLEAN, g \in {None, Some(2)}}

InitSplit ==
    /\ body \in Modules(BodyKeySet)
    /\ head \in Modules(HeadKeySet)
    /\ client_save_path = None
    /\ file = None
    /\ config = [f \in ConfigFields |-> None]
    /\ trainloader \in TrainLoaders(MaxTrainBatches)
    /\ testloader \in TestLoaders(MaxTestBatches)
    /\ pc = "idle"
    /\ num_local_epochs = 0
    /\ num_rep_epochs = 0
    /\ num_finetune_epochs = 0
    /\ momentum_buffer = NoBuffers
    /\ i = 0
    /\ j = 0
    /\ total = 0
    /\ loss_is_tensor = FALSE
    /\ result = [op |-> "none", outcome |-> "none"]
    /\ calls = 0
    /\ edits = 0
    /\ actors = <<>>
    /\ store = <<>>

NextSplit ==
    \/ SetParameters \/ RoundTrip \/ SetHead \/ SetBody \/ Construct
    \/ TrainDatasetSize \/ TestDatasetSize \/ TotalDatasetSize
    \/ EnableHead \/ EnableBody \/ DisableHead \/ DisableBody

SpecSplit == InitSplit /\ [][NextSplit]_vars

-----------------------------------------------------------------------------
(* Properties *)

HeadValues == StateDict(head)
BodyValues == StateDict(body)
FileExists == client_save_path # None /\ file # None

InTrain == pc \in {"train_load", "train_config", "train_epoch", "train_batch",
                   "train_save", "train_return"}
InTest == pc \in {"test_load", "test_config", "finetune_epoch",
                  "finetune_batch", "test_eval", "test_return"}

\* after the load of the running call and before its first training,
\* fine-tuning or evaluation step
BeforeFirstStep ==
    \/ pc = "train_config"
    \/ pc \in {"train_epoch", "train_batch"} /\ ~loss_is_tensor
    \/ pc = "test_config"
    \/ pc \in {"finetune_epoch", "finetune_batch"} /\ i = 0 /\ j = 0
    \/ pc = "test_eval" /\ num_finetune_epochs = 0 /\ j = 0

\* C1: when the state file exists at the start of train() or test(), the
\* head holds the file's content from the load until the first training,
\* fine-tuning or evaluation step of the call; the file holds the head
\* written by the last completed train(), so a second train() starts phase A
\* from it whatever was done to the in-memory head in between.
C1_LoadedHeadBeforeFirstStep ==
    (BeforeFirstStep /\ FileExists) => HeadValues = file[1]

\* a second train() after the head setter replaced the head in between
C1_Witness ==
    /\ pc = "train_epoch"
    /\ i = 0
    /\ calls = 2
    /\ result = [op |-> "head", outcome |-> "returned"]
    /\ FileExists
    /\ HeadValues = file[1]
    /\ \A k \in HeadKeySet : HeadValues[k] \notin InVals

\* C2: once phase A of train() is over, no step of the call changes a head
\* value: not the toggles, not a phase-B minibatch with the optimizer that
\* carries the head's momentum buffer, and the save writes that same head.
C2_PhaseBKeepsHead ==
    [][(pc \in {"train_epoch", "train_batch", "train_save"}
          /\ i >= num_local_epochs)
        => /\ HeadValues' = HeadValues
           /\ (pc = "train_save" /\ client_save_path # None
                 => file' = Some(HeadValues))]_vars

\* the save after a phase A that moved the head with momentum and a phase B
\* that stepped the body
C2_Witness ==
    /\ pc = "train_save"
    /\ num_local_epochs >= 1
    /\ num_rep_epochs >= 1
    /\ \A n \in HeadNames :
          momentum_buffer[n] # None /\ momentum_buffer[n][1] >= 2
    /\ \E n \in BodyNames :
          momentum_buffer[n] # None /\ momentum_buffer[n][1] >= 2

\* C3: a minibatch step of phase A changes no body value, whatever the
\* gradient flags were when train() was entered.
C3_PhaseAKeepsBody ==
    [][(pc = "train_batch" /\ i < num_local_epochs)
        => BodyValues' = BodyValues]_vars

\* phase A of a second train() directly after a train() that ended in the
\* representation phase (body enabled, head disabled at entry)
C3_Witness ==
    /\ pc = "train_batch"
    /\ i < num_local_epochs
    /\ j >= 1
    /\ calls = 2
    /\ result.op = "train"
    /\ num_rep_epochs >= 1
    /\ \A k \in HeadKeySet : head[k].grad = Some(2)
    /\ \A k \in BodyKeySet : ~body[k].requires_grad

\* (original statement of C4) test() with num_finetune_epochs = 0 changes no
\* body and no head value at any of its steps
C4_Original ==
    [][(InTest /\ config["num_finetune_epochs"] = Some(0))
        => (BodyValues' = BodyValues /\ HeadValues' = HeadValues)]_vars

\* C4 (amended): test() with num_finetune_epochs = 0 changes no body value,
\* and changes the head only at its first statement, where an existing
\* state file replaces the in-memory head; without a file the head is
\* unchanged too.
C4_OnlyLoadChangesHead ==
    [][(InTest /\ config["num_finetune_epochs"] = Some(0))
        => /\ BodyValues' = BodyValues
           /\ HeadValues' = IF pc = "test_load" /\ FileExists
                            THEN file[1] ELSE HeadValues]_vars

\* test() without fine-tuning returns on a manager whose head the setter had
\* replaced: the head is the persisted one again, the body was set by the
\* orchestrator and kept
C4_Witness ==
    /\ pc = "test_return"
    /\ config["num_finetune_epochs"] = Some(0)
    /\ result = [op |-> "head", outcome |-> "returned"]
    /\ FileExists
    /\ HeadValues = file[1]
    /\ \A k \in HeadKeySet : HeadValues[k] \notin InVals

\* C5 (as claimed): no parameter is frozen while test() fine-tunes, in
\* particular in a test() that directly follows a train() that returned, and
\* the evaluation starts after exactly num_finetune_epochs passes.
C5_FinetuneFullModel ==
    /\ (pc \in {"finetune_epoch", "finetune_batch"}
          /\ result = [op |-> "train", outcome |-> "returned"])
          => /\ \A k \in BodyKeySet : body[k].requires_grad
             /\ \A k \in HeadKeySet : head[k].requires_grad
    /\ pc = "test_eval" => i = num_finetune_epochs

\* C6: with a path configured the save of train() leaves the file equal to
\* the in-memory head, a file that exists is never removed, and without a
\* path no file is ever written.
C6_SavePersistsHead ==
    [][/\ (pc = "train_save" /\ client_save_path # None)
            => (file' = Some(HeadValues) /\ HeadValues' = HeadValues)
       /\ file # None => file' # None
       /\ client_save_path = None => file' = None]_vars

\* a later train() has overwritten the file of an earlier one
C6_Witness ==
    /\ pc = "train_return"
    /\ calls = 2
    /\ result.op = "train"
    /\ FileExists
    /\ file[1] = HeadValues
    /\ \E k \in HeadKeySet : HeadValues[k] # NewHead[k].val

\* C7: with no path, or a path with no file, the load of train() and test()
\* raises nothing, and the head keeps its values until the first training,
\* fine-tuning or evaluation step.
C7_AbsentStateSkipped ==
    [][~FileExists
        => /\ pc = "train_load"
                 => (pc' = "train_config" /\ HeadValues' = HeadValues)
           /\ pc = "test_load"
                 => (pc' = "test_config" /\ HeadValues' = HeadValues)
           /\ (BeforeFirstStep /\ BeforeFirstStep')
                 => HeadValues' = HeadValues]_vars

\* train() of the first round: a path is configured, no file exists, the
\* setter's head is still there when the first epoch starts
C7_Witness ==
    /\ pc = "train_epoch"
    /\ i = 0
    /\ client_save_path # None
    /\ file = None
    /\ result = [op |-> "head", outcome |-> "returned"]
    /\ \A k \in HeadKeySet : HeadValues[k] \in InVals

\* C8 (as claimed): test() over an empty test loader does not end in a
\* division by zero.
C8_EmptyTestLoaderNoDivision ==
    (result.op = "test" /\ Len(testloader) = 0)
        => result.outcome # "ZeroDivisionError"

Configured(field, default) ==
    IF config[field] = None THEN default ELSE config[field][1]

\* C9: after the config statements of train() and of test() each epoch
\* count is its own field when present and its own default when absent,
\* whatever the other fields are.
C9_ConfigDefaults ==
    /\ pc \in {"train_epoch", "train_batch", "train_save", "train_return"}
          => /\ num_local_epochs =
                   Configured("num_local_epochs", DEFAULT_LOCAL_TRAIN_EPOCHS)
             /\ num_rep_epochs =
                   Configured("num_rep_epochs", DEFAULT_REPRESENTATION_EPOCHS)
    /\ pc \in {"finetune_epoch", "finetune_batch", "test_eval", "test_return"}
          => num_finetune_epochs =
                Configured("num_finetune_epochs", DEFAULT_FINETUNE_EPOCHS)

\* train() with one field absent and the other present
C9_Witness ==
    /\ pc = "train_save"
    /\ config["num_local_epochs"] = None
    /\ config["num_rep_epochs"] = Some(0)
    /\ config["num_finetune_epochs"] # None
    /\ num_local_epochs = DEFAULT_LOCAL_TRAIN_EPOCHS
    /\ num_rep_epochs = 0
    /\ i = DEFAULT_LOCAL_TRAIN_EPOCHS

\* C10: get_parameters() lists the body values and then the head values in
\* state order, and set_parameters of that list paired positionally with the
\* full-state names leaves every parameter as it was.
C10_RoundTrip ==
    LET values == get_parameters(body, head)
    IN  /\ Len(values) = Cardinality(BodyKeySet) + Cardinality(HeadKeySet)
        /\ \A n \in 1..Len(BodyKeys) : values[n] = body[BodyKeys[n]].val
        /\ \A n \in 1..Len(HeadKeys) :
              values[Len(BodyKeys) + n] = head[HeadKeys[n]].val
        /\ set_parameters(body, head, Zip(FullNames, values))
              = [body |-> body, head |-> head]

\* the round trip has run on a trained model whose tensors all differ
C10_Witness ==
    /\ result = [op |-> "round_trip", outcome |-> "returned"]
    /\ Cardinality({BodyValues[k] : k \in BodyKeySet}
                   \cup {HeadValues[k] : k \in HeadKeySet})
          = Cardinality(BodyKeySet) + Cardinality(HeadKeySet)
    /\ BodyValues # StateDict(NewBody)
    /\ HeadValues # StateDict(NewHead)

\* C11: the strict setters raise exactly when the mapping's key set is not
\* the key set of the sub-module; a setter that returns has replaced every
\* value of its sub-module, and neither setter touches the other sub-module.
C11_StrictSetters ==
    [][/\ \A sd \in HeadInputs :
            (load_state_dict_strict(head, sd).raised # "none")
               <=> (HeadKeySet \ DOMAIN sd # {} \/ DOMAIN sd \ HeadKeySet # {})
       /\ \A sd \in BodyInputs :
            (load_state_dict_strict(body, sd).raised # "none")
               <=> (BodyKeySet \ DOMAIN sd # {} \/ DOMAIN sd \ BodyKeySet # {})
       /\ (edits' = edits + 1 /\ result'.op = "head")
            => /\ body' = body
               /\ result'.outcome \in {"returned", "RuntimeError"}
               /\ result'.outcome = "returned"
                     => \A k \in HeadKeySet : HeadValues'[k] \in InVals
       /\ (edits' = edits + 1 /\ result'.op = "body")
            => /\ head' = head
               /\ result'.outcome \in {"returned", "RuntimeError"}
               /\ result'.outcome = "returned"
                     => \A k \in BodyKeySet : BodyValues'[k] \in InVals]_vars

\* the body setter has replaced the whole body of a trained model and left
\* the trained head
C11_Witness ==
    /\ result = [op |-> "body", outcome |-> "returned"]
    /\ \A k \in BodyKeySet : BodyValues[k] \in InVals
    /\ \A k \in HeadKeySet : HeadValues[k] \notin InVals
    /\ HeadValues # StateDict(NewHead)

\* C12: set_parameters merges by name: every named tensor of the model takes
\* the supplied value, every other tensor keeps its value, flags and grads are
\* kept, and a partial mapping or one with unknown names is not rejected.
C12_PermissiveMerge ==
    /\ \A sd \in StateDictInputs :
          LET merged == set_parameters(body, head, sd)
          IN  /\ \A n \in ParamNames :
                    FullStateDict(merged.body, merged.head)[n] =
                       IF n \in DOMAIN sd THEN sd[n]
                       ELSE FullStateDict(body, head)[n]
              /\ \A k \in BodyKeySet :
                    /\ merged.body[k].requires_grad = body[k].requires_grad
                    /\ merged.body[k].grad = body[k].grad
              /\ \A k \in HeadKeySet :
                    /\ merged.head[k].requires_grad = head[k].requires_grad
                    /\ merged.head[k].grad = head[k].grad
    /\ result.op = "set_parameters" => result.outcome = "returned"

\* a mapping that names only the body tensors has been merged: the body holds
\* the supplied values, the head the values it had
C12_Witness ==
    /\ result = [op |-> "set_parameters", outcome |-> "returned"]
    /\ \A k \in BodyKeySet : BodyValues[k] \in InVals
    /\ \A k \in HeadKeySet : HeadValues[k] \notin InVals
    /\ \E k \in HeadKeySet : ~head[k].requires_grad

SizeAccessors == {"train_dataset_size", "test_dataset_size", "total_dataset_size"}

\* C13: the train and test sizes add up to the total size in every state, and
\* a size accessor changes no parameter, no gradient flag and not the file.
C13_DatasetSizes ==
    [][/\ train_dataset_size + test_dataset_size = total_dataset_size
       /\ train_dataset_size' + test_dataset_size' = total_dataset_size'
       /\ (edits' = edits + 1 /\ result'.op \in SizeAccessors)
            => /\ body' = body
               /\ head' = head
               /\ file' = file
               /\ <<trainloader, testloader>>' = <<trainloader, testloader>>]_vars

\* the total has been read for a manager with data on both sides
C13_Witness ==
    /\ result = [op |-> "total_dataset_size", outcome |-> "returned"]
    /\ train_dataset_size >= 1
    /\ test_dataset_size >= 1
    /\ total_dataset_size = train_dataset_size + test_dataset_size

Trainable(m) == \A k \in DOMAIN m : m[k].requires_grad
Frozen(m) == \A k \in DOMAIN m : ~m[k].requires_grad

\* C14: train() makes num_local_epochs + num_rep_epochs passes over the
\* training loader, the head-phase passes first; at every minibatch of a
\* head-phase pass the body is frozen and the head trainable, at every
\* minibatch of a representation-phase pass the body is trainable and the
\* head frozen.
C14_PhaseOrder ==
    [][/\ pc = "train_batch"
            => /\ i < num_local_epochs + num_rep_epochs
               /\ j <= Len(trainloader)
               /\ IF i < num_local_epochs
                  THEN Frozen(body) /\ Trainable(head)
                  ELSE Trainable(body) /\ Frozen(head)
       /\ (InTrain /\ InTrain')
            => /\ i' \in {i, i + 1}
               /\ i' = i + 1 => pc = "train_batch" /\ j = Len(trainloader)
               /\ <<num_local_epochs, num_rep_epochs>>' # <<num_local_epochs, num_rep_epochs>>
                     => pc = "train_config"
       /\ pc' = "train_save" => i' = num_local_epochs' + num_rep_epochs']_vars

\* the last minibatch of a representation-phase pass that follows a head-phase
\* pass has been taken
C14_Witness ==
    /\ pc = "train_batch"
    /\ num_local_epochs >= 1
    /\ num_rep_epochs >= 1
    /\ i = num_local_epochs
    /\ j = Len(trainloader)
    /\ j >= 1
    /\ Trainable(body) /\ Frozen(head)

Grad(m) == [k \in DOMAIN m |-> m[k].grad]

\* C15: inside one train() the optimizer state is changed by optimizer.step()
\* only: the step from one epoch to the next, the phase change included,
\* keeps every momentum buffer, every value and every gradient, and changes
\* nothing of the model but the requires_grad flags.
C15_OneOptimizer ==
    [][/\ (InTrain /\ InTrain' /\ momentum_buffer' # momentum_buffer)
            => pc = "train_batch" /\ j < Len(trainloader)
       /\ (pc = "train_epoch" /\ pc' = "train_batch")
            => /\ momentum_buffer' = momentum_buffer
               /\ StateDict(body') = StateDict(body)
               /\ StateDict(head') = StateDict(head)
               /\ Grad(body') = Grad(body)
               /\ Grad(head') = Grad(head)
       /\ (pc = "train_batch" /\ j = 0 /\ i >= 1)
            => \A n \in ParamNames :
                  n[1] = "_head" /\ num_local_epochs >= 1 /\ Len(trainloader) >= 1
                     => momentum_buffer[n] # None]_vars

\* the first step of the representation phase has been taken with the head's
\* momentum buffer of the head phase still in place
C15_Witness ==
    /\ pc = "train_batch"
    /\ num_local_epochs >= 1
    /\ i = num_local_epochs
    /\ j = 1
    /\ \A n \in ParamNames : momentum_buffer[n] # None

\* the sub-module m with its flags set to f
WithFlags(m, f) == [k \in DOMAIN m |-> [m[k] EXCEPT !.requires_grad = f[k]]]

SameButFlags(m1, m2) == StateDict(m1) = StateDict(m2) /\ Grad(m1) = Grad(m2)

ToggleNames == {"enable_head", "enable_body", "disable_head", "disable_body"}

\* C16: whatever the flags were, a toggle sets the flag of every parameter of
\* its sub-module, changes no value and no gradient, and is idempotent; a
\* toggle call leaves the other sub-module as it is; after enable_head() and
\* disable_body() a backward pass gives gradients to the head parameters only.
C16_Toggles ==
    [][/\ (edits' = edits + 1 /\ result'.op \in ToggleNames) =>
          \A fb \in [BodyKeySet -> BOOLEAN], fh \in [HeadKeySet -> BOOLEAN] :
            LET b == WithFlags(body, fb)
                h == WithFlags(head, fh)
            IN  /\ Trainable(enable_body(b)) /\ SameButFlags(enable_body(b), b)
                /\ Frozen(disable_body(b)) /\ SameButFlags(disable_body(b), b)
                /\ Trainable(enable_head(h)) /\ SameButFlags(enable_head(h), h)
                /\ Frozen(disable_head(h)) /\ SameButFlags(disable_head(h), h)
                /\ enable_body(enable_body(b)) = enable_body(b)
                /\ disable_body(disable_body(b)) = disable_body(b)
                /\ enable_head(enable_head(h)) = enable_head(h)
                /\ disable_head(disable_head(h)) = disable_head(h)
                /\ \A g \in Grads \ {0} :
                      /\ Backward(disable_body(b), GradOf([grad |-> g], BodyKeySet))
                            = disable_body(b)
                      /\ \A k \in HeadKeySet :
                            Backward(enable_head(h),
                                     GradOf([grad |-> g], HeadKeySet))[k].grad
                               # h[k].grad
       /\ (edits' = edits + 1 /\ result'.op \in {"enable_head", "disable_head"})
            => /\ body' = body
               /\ SameButFlags(head', head)
               /\ IF result'.op = "enable_head" THEN Trainable(head')
                                                ELSE Frozen(head')
       /\ (edits' = edits + 1 /\ result'.op \in {"enable_body", "disable_body"})
            => /\ head' = head
               /\ SameButFlags(body', body)
               /\ IF result'.op = "enable_body" THEN Trainable(body')
                                                ELSE Frozen(body')]_vars

\* disable_body() has frozen the trained body of a model whose head is
\* enabled: the head parameters alone are eligible
C16_Witness ==
    /\ result = [op |-> "disable_body", outcome |-> "returned"]
    /\ Frozen(body)
    /\ Trainable(head)
    /\ \A k \in BodyKeySet : body[k].grad # None

\* the last finished call is a test() whose last fine-tuning step moved the
\* head: the head was trainable and the gradient of the last minibatch nonzero
FineTunedHead ==
    /\ result = [op |-> "test", outcome |-> "returned"]
    /\ Resolve(config, "num_finetune_epochs", DEFAULT_FINETUNE_EPOCHS) >= 1
    /\ Len(trainloader) >= 1
    /\ \A k \in HeadKeySet : head[k].grad # None /\ head[k].grad # Some(0)

C18_SaveAfterLastEpoch ==
    [][/\ file' # file
            => /\ pc = "train_save"
               /\ i = num_local_epochs + num_rep_epochs
               /\ file' = Some(HeadValues)
       /\ pc' = "train_save" => pc = "train_epoch"
       /\ pc = "train_save" => pc' = "train_return"
       /\ (pc \in BeforeSave /\ pc' = "idle") => file' = file]_vars

\* a second train() has raised in the middle of its round: the head has moved
\* and the file holds the head the first train() persisted
C18_Witness ==
    /\ pc = "idle"
    /\ result = [op |-> "train", outcome |-> "raised"]
    /\ calls = 2
    /\ FileExists
    /\ HeadValues # file[1]

OwnPaths == \A c, d \in Actors : c # d => actors[c].path # actors[d].path

\* the head that n train() calls of actor c alone produce
OwnHead(c, n) ==
    [k \in HeadKeySet |-> NewHead[k].val - LearningRate * ActorGrads[c] * n]

\* C19: when the actors have paths of their own, under every interleaving of
\* their calls no load raises, no actor loads a file another actor wrote, and
\* between its calls the head of an actor and the file of its path are the
\* ones its own train() calls produce.
C19_OwnPathIsolation ==
    OwnPaths =>
       \A c \in Actors :
          LET a == actors[c]
              f == store[a.path]
          IN  /\ ~a.raised
              /\ a.loaded_from \in {0, c}
              /\ f.writer \in {0, c}
              /\ a.pc = "idle"
                    => /\ StateDict(a.head) = OwnHead(c, a.trains)
                       /\ f.complete
                       /\ f.file = IF a.trains = 0 THEN None
                                   ELSE Some(OwnHead(c, a.trains))

\* with paths of their own, one actor has finished its second train() on the
\* head of its first while the other is in the middle of its save
C19_Witness ==
    /\ OwnPaths
    /\ actors[1].pc = "idle"
    /\ actors[1].trains = 2
    /\ actors[1].loaded_from = 1
    /\ actors[2].pc = "train_write"
    /\ ~store[actors[2].path].complete

====
